---- MODULE Spec2Model ----
(***************************************************************************)
(* Attendance reconciliation tasks of flora (src/celery/tasks.py) and the  *)
(* enqueue step of the API (src/api/api.py), run against one attendance    *)
(* sheet of the remote spreadsheet service.                                *)
(*                                                                         *)
(* A remote call (.execute()) either returns the service's response after  *)
(* the service applied it, or raises HttpError and leaves the sheet alone. *)
(* A task body that raises ends the task in the worker: celery records     *)
(* FAILURE with the exception instance as result, except for Ignore, which *)
(* leaves the state the body has set.  STARTED is not reported, the app is *)
(* created without task_track_started.                                     *)
(***************************************************************************)
EXTENDS Integers, Sequences, FiniteSets, TLC

\* How many tasks the API enqueues in one behaviour.
MaxTasks == 2

\* Columns of an attendance row: the 7 names unpacked from each row read.
NCols == 7

CubNames == {"Alex", "Jordan"}

\* The date of the requests; the sheet also holds rows of the day before.
Dates == {"2024-03-01"}

DayBefore == "2024-02-29"

\* (parentSignature, time) of a sign-out request.
SignOutStamps == {<<"sigP2", "17:00">>, <<"sigP3", "17:30">>}

SignInArgs ==
    [cub_name : CubNames, cub_sig : {"sigC"}, parent_sig : {"sigP"},
     time : {"08:00"}, date : Dates, sheet_name : {"Attendance"}]

SignOutArgs ==
    { [cub_name |-> c, parent_sig |-> s[1], time |-> s[2], date |-> d,
       sheet_name |-> "Attendance"] : c \in CubNames, s \in SignOutStamps, d \in Dates }

\* What .execute() of a remote call can do: return, or raise HttpError.
RemoteOutcomes == {"ok", "HttpError"}

RemoteErrorMessage == "quota exceeded"

NoMeta == [type |-> "NoneType", text |-> ""]

NoResult == [has_values |-> FALSE, values |-> <<>>]

\* add_sign_in with the time written into the guardian-out column.
SignInRowShifted(a) == <<a.cub_name, a.cub_sig, a.parent_sig, a.time, "", "", a.date>>

\* The row add_sign_in appends.
SignInRow(a) == <<a.cub_name, a.cub_sig, a.parent_sig, "", a.time, "", a.date>>

\* The row add_sign_out appends when its scan found no match.
OrphanRow(a) == <<a.cub_name, "", "", a.parent_sig, "", a.time, a.date>>

\* The scan building its row like the orphan row: sign-in columns dropped.
MergedRowBlank(row, a) ==
    <<a.cub_name, "", "", a.parent_sig, "", a.time, a.date>>

\* updated_row of the scan: the matched row's sign-in columns, the task's
\* cub_name, parent_sig, time and date.
MergedRow(row, a) ==
    <<a.cub_name, row[2], row[3], a.parent_sig, row[5], a.time, a.date>>

\* A match test that takes only rows without a guardian-out signature.
RowMatchesOpenOnly(row, a) ==
    row[1] = a.cub_name /\ row[7] = a.date /\ row[4] = ""

\* row_cub_name == cub_name and row_date == date
RowMatches(row, a) == row[1] = a.cub_name /\ row[7] = a.date

\* Rows the sheet may hold before the first task runs.
OpenRow(c, d) ==
    SignInRow([cub_name |-> c, cub_sig |-> "sigC", parent_sig |-> "sigP",
               time |-> "08:00", date |-> d])

EarlyRow(c, d) ==
    SignInRow([cub_name |-> c, cub_sig |-> "sigC0", parent_sig |-> "sigP0",
               time |-> "07:45", date |-> d])

\* A title row as wide as the table, and one that is not.
HeaderRow == <<"Name", "CubSig", "ParentIn", "ParentOut", "TimeIn", "TimeOut", "Date">>

ShortRow == <<"Name", "Date">>

InitSheets ==
    { <<>>,
      <<HeaderRow, OpenRow("Alex", "2024-03-01")>>,
      <<OpenRow("Jordan", "2024-03-01"), OpenRow("Alex", "2024-03-01"),
        OpenRow("Alex", DayBefore)>>,
      <<EarlyRow("Alex", "2024-03-01"), OpenRow("Jordan", DayBefore),
        OpenRow("Alex", "2024-03-01")>>,
      <<ShortRow, OpenRow("Alex", "2024-03-01")>>,
      <<OpenRow("Alex", "2024-03-01"), ShortRow>> }

VARIABLES
    sheet,   \* the attendance sheet held by the remote service: a sequence of rows
    tasks,   \* the task instances the API has enqueued, in enqueue order
    log,     \* the remote calls issued so far, in the order the service saw them
    responses,     \* the HTTP responses of /v1/sign-in and /v1/sign-out, in order
    attendance,    \* the rows of the Attendance table of the relational store
    name_table,    \* the rows of the Name table: user id -> names, committed
    autocomplete,  \* user id -> column A2:A of the user's autocomplete sheet
    beat           \* the periodic update_name_autocomplete task: its runs

sheetVars == <<sheet, tasks, log>>

apiVars == <<responses, attendance>>

nameVars == <<name_table, autocomplete, beat>>

vars == <<sheet, tasks, log, responses, attendance, name_table, autocomplete, beat>>

TaskIds == 1..Len(tasks)

----------------------------------------------------------------------------
\* The spreadsheet service.

\* values().get(range=sheet_name): the `values` key is left out of the
\* response when the range holds no row.
SheetGet(s) == [has_values |-> Len(s) > 0, values |-> s]

\* An append that leaves out a row the sheet already holds.
SheetAppendOnce(s, row) ==
    IF \E k \in 1..Len(s) : s[k] = row THEN s ELSE Append(s, row)

\* An append that inserts the row above the rows the sheet holds.
SheetAppendAtTop(s, row) == <<row>> \o s

\* values().append(range=sheet_name, body={"values": [row]})
SheetAppend(s, row) == Append(s, row)

\* The range built from the 0-based index of the scan, the + 1 left out.
UpdateRangeZeroBased(a, updated_row_index) ==
    [sheet_name |-> a.sheet_name, row |-> updated_row_index]

\* The 1-based row number of the A1 range written by the update call.
UpdateRange(a, updated_row_index) ==
    [sheet_name |-> a.sheet_name, row |-> updated_row_index + 1]

\* The matched row written with an append call instead of an update call.
SheetUpdateAppends(s, range, row) == Append(s, row)

\* values().update(range="{sheet_name}!A{n}", body={"values": [row]})
SheetUpdate(s, range, row) ==
    IF range.row \in 1..Len(s) THEN [s EXCEPT ![range.row] = row]
    ELSE s \o [k \in 1..(range.row - Len(s)) |->
                 IF k = range.row - Len(s) THEN row ELSE <<>>]

Call(t, op, range, row, ok) ==
    [task |-> t, op |-> op, range |-> range, row |-> row, ok |-> ok]

----------------------------------------------------------------------------
\* The worker's handling of a task body's end.

\* The body returned: SUCCESS.  The body raised Ignore: the state it set
\* with update_state stays.  The body raised anything else: FAILURE, the
\* exception as result.
TraceTask(task, exc, text, state, meta) ==
    [task EXCEPT
       !.pc = "done",
       !.exc = exc,
       !.status = CASE exc = "" -> "SUCCESS"
                    [] exc = "Ignore" -> state
                    [] OTHER -> "FAILURE",
       !.meta = CASE exc = "" -> NoMeta
                  [] exc = "Ignore" -> meta
                  [] OTHER -> [type |-> exc, text |-> text]]

\* append_row's return value once execute() has returned.
AppendResult == [ok |-> TRUE, message |-> "Successfully appended row"]

\* The end of a task body after its append_row call: execute() raised, or
\* append_row returned and the body tests append.ok.
AfterAppend(task, outcome) ==
    IF outcome # "ok"
    THEN TraceTask(task, outcome, RemoteErrorMessage, "", NoMeta)
    ELSE IF ~AppendResult.ok
         THEN TraceTask(task, "Ignore", "", "FAILURE",
                        [type |-> "str", text |-> AppendResult.message])
         ELSE TraceTask(task, "", "", "", NoMeta)

----------------------------------------------------------------------------
\* The scan of add_sign_out over result["values"]: rows are unpacked in
\* order, the candidate is overwritten at every match.

\* str() of the exceptions the scan can raise: result["values"] without the
\* key, a row that does not unpack into 7 names.
ExcText(exc) ==
    IF exc = "KeyError" THEN "'values'" ELSE "wrong number of values to unpack"

RECURSIVE Scan(_, _, _, _)
Scan(values, a, k, found) ==
    IF k > Len(values) THEN found
    ELSE IF Len(values[k]) # NCols
         THEN [found EXCEPT !.exc = "ValueError"]
         ELSE IF RowMatches(values[k], a)
              THEN Scan(values, a, k + 1,
                        [exc |-> "", updated_row_index |-> k - 1,
                         updated_row |-> MergedRow(values[k], a)])
              ELSE Scan(values, a, k + 1, found)

\* The scan leaving its loop at the first match.
RECURSIVE ScanFirstMatch(_, _, _, _)
ScanFirstMatch(values, a, k, found) ==
    IF k > Len(values) THEN found
    ELSE IF Len(values[k]) # NCols
         THEN [found EXCEPT !.exc = "ValueError"]
         ELSE IF RowMatches(values[k], a)
              THEN [exc |-> "", updated_row_index |-> k - 1,
                    updated_row |-> MergedRow(values[k], a)]
              ELSE ScanFirstMatch(values, a, k + 1, found)

ScanResultFirstMatch(result, a) ==
    IF ~result.has_values
    THEN [exc |-> "KeyError", updated_row_index |-> -1, updated_row |-> <<>>]
    ELSE ScanFirstMatch(result.values, a, 1,
                        [exc |-> "", updated_row_index |-> -1, updated_row |-> <<>>])

\* The scan passing over the rows that do not have 7 columns.
ScanResultSkipOtherWidths(result, a) ==
    IF ~result.has_values
    THEN [exc |-> "KeyError", updated_row_index |-> -1, updated_row |-> <<>>]
    ELSE Scan([k \in 1..Len(result.values) |->
                 IF Len(result.values[k]) = NCols THEN result.values[k]
                 ELSE <<"", "", "", "", "", "", "">>],
              a, 1, [exc |-> "", updated_row_index |-> -1, updated_row |-> <<>>])

ScanResult(result, a) ==
    IF ~result.has_values
    THEN [exc |-> "KeyError", updated_row_index |-> -1, updated_row |-> <<>>]
    ELSE Scan(result.values, a, 1,
              [exc |-> "", updated_row_index |-> -1, updated_row |-> <<>>])

----------------------------------------------------------------------------
\* The user table and the settings table of the relational store: two
\* accounts with settings, one invited account without.
UserTable ==
    { [id |-> 1, email |-> "nicholas.spain96@gmail.com"],
      [id |-> 2, email |-> "kim@example.org"],
      [id |-> 3, email |-> "sam@example.org"] }

SettingsTable ==
    { [user_id |-> 1, spreadsheet_id |-> "sheet-1", attendance_sheet |-> "Attendance",
       autocomplete_sheet |-> "Names"],
      [user_id |-> 2, spreadsheet_id |-> "sheet-2", attendance_sheet |-> "Attendance",
       autocomplete_sheet |-> "Names"] }

UserIds == {u.id : u \in UserTable}

\* No request has come in, the Attendance table holds no row.
InitApiIdle ==
    /\ responses = <<>>
    /\ attendance = {}

\* The periodic task has not run; nothing is cached.
InitNamesIdle ==
    /\ name_table = [u \in UserIds |-> <<>>]
    /\ autocomplete = [u \in UserIds |-> <<>>]
    /\ beat = [pc |-> "idle", runs |-> 0, users |-> <<>>, status |-> "PENDING",
               exc |-> ""]

Init ==
    /\ sheet \in InitSheets
    /\ tasks = <<>>
    /\ log = <<>>
    /\ InitApiIdle
    /\ InitNamesIdle

\* worker.celery.send_task("tasks.add_sign_in" | "tasks.add_sign_out", args=...)
NewTask(name, a) ==
    [name |-> name, args |-> a, pc |-> "queued", status |-> "PENDING",
     meta |-> NoMeta, exc |-> "", result |-> NoResult,
     updated_row_index |-> -1, updated_row |-> <<>>]

send_task ==
    /\ Len(tasks) < MaxTasks
    /\ \/ \E a \in SignInArgs : tasks' = Append(tasks, NewTask("add_sign_in", a))
       \/ \E a \in SignOutArgs : tasks' = Append(tasks, NewTask("add_sign_out", a))
    /\ UNCHANGED <<sheet, log>>

\* A task message delivered again after its task has ended.
RunnableAgain(task) == task.pc \in {"queued", "done"}

\* A task message is acknowledged when the worker takes it (acks_late is not
\* set): a task body is run once.
Runnable(task) == task.pc = "queued"

\* The whole body of add_sign_in: one append_row call, then the test of
\* append.ok.
add_sign_in(t) ==
    /\ tasks[t].name = "add_sign_in"
    /\ Runnable(tasks[t])
    /\ \E outcome \in RemoteOutcomes :
         LET row == SignInRow(tasks[t].args) IN
           /\ sheet' = IF outcome = "ok" THEN SheetAppend(sheet, row) ELSE sheet
           /\ log' = Append(log, Call(t, "append", tasks[t].args.sheet_name, row,
                                      outcome = "ok"))
           /\ tasks' = [tasks EXCEPT ![t] = AfterAppend(tasks[t], outcome)]

\* add_sign_out up to the end of its scan: the read of the whole sheet and
\* the loop over result["values"].
add_sign_out_read(t) ==
    /\ tasks[t].name = "add_sign_out"
    /\ Runnable(tasks[t])
    /\ \E outcome \in RemoteOutcomes :
         /\ log' = Append(log, Call(t, "get", tasks[t].args.sheet_name, <<>>,
                                    outcome = "ok"))
         /\ sheet' = sheet
         /\ tasks' =
              IF outcome # "ok"
              THEN [tasks EXCEPT ![t] =
                      TraceTask(tasks[t], outcome, RemoteErrorMessage, "", NoMeta)]
              ELSE LET result == SheetGet(sheet)
                       scan == ScanResult(result, tasks[t].args)
                       read == [tasks[t] EXCEPT
                                  !.result = result,
                                  !.updated_row_index = scan.updated_row_index,
                                  !.updated_row = scan.updated_row]
                   IN IF scan.exc # ""
                      THEN [tasks EXCEPT ![t] =
                              TraceTask(read, scan.exc, ExcText(scan.exc), "", NoMeta)]
                      ELSE [tasks EXCEPT ![t] = [read EXCEPT !.pc = "write"]]

\* The rest of add_sign_out: the append of the orphan row when the scan
\* found nothing, the update of the matched row otherwise.
add_sign_out_write(t) ==
    /\ tasks[t].name = "add_sign_out"
    /\ tasks[t].pc = "write"
    /\ \E outcome \in RemoteOutcomes :
         IF tasks[t].updated_row_index = -1
         THEN LET row == OrphanRow(tasks[t].args) IN
                /\ sheet' = IF outcome = "ok" THEN SheetAppend(sheet, row) ELSE sheet
                /\ log' = Append(log, Call(t, "append", tasks[t].args.sheet_name,
                                           row, outcome = "ok"))
                /\ tasks' = [tasks EXCEPT ![t] = AfterAppend(tasks[t], outcome)]
         ELSE LET range == UpdateRange(tasks[t].args, tasks[t].updated_row_index)
                  row == tasks[t].updated_row
              IN
                /\ sheet' = IF outcome = "ok" THEN SheetUpdate(sheet, range, row)
                            ELSE sheet
                /\ log' = Append(log, Call(t, "update", range, row, outcome = "ok"))
                /\ tasks' = [tasks EXCEPT ![t] =
                               IF outcome = "ok"
                               THEN TraceTask(tasks[t], "", "", "", NoMeta)
                               ELSE TraceTask(tasks[t], outcome, RemoteErrorMessage,
                                              "", NoMeta)]

Next ==
    \/ send_task /\ UNCHANGED <<apiVars, nameVars>>
    \/ \E t \in TaskIds : add_sign_in(t) /\ UNCHANGED <<apiVars, nameVars>>
    \/ \E t \in TaskIds : add_sign_out_read(t) /\ UNCHANGED <<apiVars, nameVars>>
    \/ \E t \in TaskIds : add_sign_out_write(t) /\ UNCHANGED <<apiVars, nameVars>>

Spec == Init /\ [][Next]_vars

----------------------------------------------------------------------------
\* What the claims read off a state.

CallsOf(t) == SelectSeq(log, LAMBDA c : c.task = t)

OpCalls(t, op) == SelectSeq(log, LAMBDA c : c.task = t /\ c.op = op)

Done(t) == tasks[t].pc = "done"

IsSignIn(t) == tasks[t].name = "add_sign_in"

IsSignOut(t) == tasks[t].name = "add_sign_out"

\* The task's read of the sheet returned a response.
ReadReturned(t) ==
    \E k \in 1..Len(log) : log[k].task = t /\ log[k].op = "get" /\ log[k].ok

\* Some call of the given kind made by the task failed.
FailedCall(t, ops) ==
    \E k \in 1..Len(log) : log[k].task = t /\ log[k].op \in ops /\ ~log[k].ok

\* Where in the log the task's call of the given kind stands (a task makes
\* at most one call of each kind).
Pos(t, op) == CHOOSE k \in 1..Len(log) : log[k].task = t /\ log[k].op = op

HasCall(t, op) == \E k \in 1..Len(log) : log[k].task = t /\ log[k].op = op

WellFormed(values) == \A k \in 1..Len(values) : Len(values[k]) = NCols

\* The 1-based positions of the rows for child c on date d.
RowsFor(values, c, d) ==
    { k \in 1..Len(values) :
        Len(values[k]) = NCols /\ values[k][1] = c /\ values[k][NCols] = d }

SameKey(t, u) ==
    /\ tasks[t].args.cub_name = tasks[u].args.cub_name
    /\ tasks[t].args.date = tasks[u].args.date

MaxOf(S) == CHOOSE k \in S : \A j \in S : j <= k

\* One update call, addressed to row number n of the task's sheet, no append.
OneUpdateAt(t, n) ==
    /\ Len(OpCalls(t, "update")) = 1
    /\ OpCalls(t, "update")[1].range =
         [sheet_name |-> tasks[t].args.sheet_name, row |-> n]
    /\ OpCalls(t, "append") = <<>>

\* One append call carrying the orphan row of the task, no update.
OneOrphanAppend(t) ==
    /\ Len(OpCalls(t, "append")) = 1
    /\ OpCalls(t, "append")[1].row =
         <<tasks[t].args.cub_name, "", "", tasks[t].args.parent_sig, "",
           tasks[t].args.time, tasks[t].args.date>>
    /\ OpCalls(t, "update") = <<>>

----------------------------------------------------------------------------
\* C1, as stated, for reads whose rows all have the 7 columns of an
\* attendance row: whenever the rows read by add_sign_out hold a row for
\* (childName, date) at 0-based index i, the task issues exactly one update
\* call, addressed to sheetName!A{i+1}, and no append call.
C1_UpdateAtEveryMatch ==
    \A t \in TaskIds :
      (IsSignOut(t) /\ Done(t) /\ ReadReturned(t)
       /\ WellFormed(tasks[t].result.values)) =>
        \A k \in RowsFor(tasks[t].result.values, tasks[t].args.cub_name,
                         tasks[t].args.date) :
          OneUpdateAt(t, k)

\* C1, amended: when every row read has 7 columns and some row is for
\* (childName, date), the task issues exactly one update call, addressed to
\* sheetName!A{i+1} with i the 0-based index of the LAST such row, and no
\* append call.
C1_UpdateAtLastMatch ==
    \A t \in TaskIds :
      LET values == tasks[t].result.values
          rows == RowsFor(values, tasks[t].args.cub_name, tasks[t].args.date)
      IN (IsSignOut(t) /\ Done(t) /\ ReadReturned(t) /\ WellFormed(values)
          /\ rows # {}) =>
           OneUpdateAt(t, MaxOf(rows))

\* A sign-out that read two rows for its (childName, date) and whose update
\* was applied.
C1_Witness ==
    \E t \in TaskIds :
      /\ IsSignOut(t) /\ Done(t) /\ ReadReturned(t)
      /\ WellFormed(tasks[t].result.values)
      /\ Cardinality(RowsFor(tasks[t].result.values, tasks[t].args.cub_name,
                             tasks[t].args.date)) = 2
      /\ HasCall(t, "update") /\ log[Pos(t, "update")].ok

\* C2, as stated (for reads whose rows all have 7 columns): whenever no row
\* read by add_sign_out is for (childName, date), the task issues exactly one
\* append call, of the row [childName, "", "", guardianSig, "", time, date],
\* and no update call.
C2_AppendWhenNoMatch ==
    \A t \in TaskIds :
      LET values == tasks[t].result.values IN
        (IsSignOut(t) /\ Done(t) /\ ReadReturned(t) /\ WellFormed(values)
         /\ RowsFor(values, tasks[t].args.cub_name, tasks[t].args.date) = {}) =>
          OneOrphanAppend(t)

\* C3: when add_sign_in(c, cs, gs, t1, d) has succeeded before
\* add_sign_out(c, gs2, t2, d) reads the sheet, the sign-out succeeds, no
\* other task is for (c, d) and the sheet held no other row for (c, d), the
\* sheet holds exactly one row for (c, d), it is [c, cs, gs, gs2, t1, t2, d],
\* and the sign-out has appended nothing.
C3_SignInThenSignOut ==
    \A ti \in TaskIds : \A to \in TaskIds :
      LET a == tasks[ti].args
          b == tasks[to].args
      IN (/\ IsSignIn(ti) /\ IsSignOut(to) /\ SameKey(ti, to)
          /\ tasks[ti].status = "SUCCESS" /\ tasks[to].status = "SUCCESS"
          /\ Pos(ti, "append") < Pos(to, "get")
          /\ \A u \in TaskIds \ {ti, to} : ~SameKey(u, to)
          /\ Cardinality(RowsFor(tasks[to].result.values, b.cub_name, b.date)) = 1)
         =>
          /\ Cardinality(RowsFor(sheet, b.cub_name, b.date)) = 1
          /\ \A k \in RowsFor(sheet, b.cub_name, b.date) :
               sheet[k] = <<b.cub_name, a.cub_sig, a.parent_sig, b.parent_sig,
                            a.time, b.time, b.date>>
          /\ OpCalls(to, "append") = <<>>

\* A sign-in followed by the sign-out of the same child and date, both
\* succeeded, the sheet not empty before them.
C3_Witness ==
    \E ti \in TaskIds : \E to \in TaskIds :
      /\ IsSignIn(ti) /\ IsSignOut(to) /\ SameKey(ti, to)
      /\ tasks[ti].status = "SUCCESS" /\ tasks[to].status = "SUCCESS"
      /\ Pos(ti, "append") < Pos(to, "get")
      /\ Cardinality(RowsFor(tasks[to].result.values, tasks[to].args.cub_name,
                             tasks[to].args.date)) = 1
      /\ Len(tasks[to].result.values) > 1
      /\ HasCall(to, "update")

\* C4: add_sign_in issues exactly one remote call, an append of the 7-column
\* row [childName, childSig, guardianSig, "", time, "", date]; it issues no
\* read and no update.
C4_SignInAppendsOneRow ==
    \A t \in TaskIds :
      (IsSignIn(t) /\ Done(t)) =>
        LET a == tasks[t].args IN
          /\ Len(CallsOf(t)) = 1
          /\ CallsOf(t)[1].op = "append"
          /\ CallsOf(t)[1].row =
               <<a.cub_name, a.cub_sig, a.parent_sig, "", a.time, "", a.date>>
          /\ Len(CallsOf(t)[1].row) = 7

\* A sign-in whose append was applied: its row is the last of the sheet.
C4_Witness ==
    \E t \in TaskIds :
      /\ IsSignIn(t) /\ Done(t) /\ tasks[t].status = "SUCCESS"
      /\ Len(log) = 1 /\ log[1].ok
      /\ Len(sheet) > 0 /\ sheet[Len(sheet)] = log[1].row

\* C5, as stated: when the append call of a task fails with message m, the
\* task ends FAILURE with metadata equal to m.
C5_AppendFailureMessage ==
    \A t \in TaskIds :
      (Done(t) /\ FailedCall(t, {"append"})) =>
        /\ tasks[t].status = "FAILURE"
        /\ tasks[t].meta = [type |-> "str", text |-> RemoteErrorMessage]

\* C6, as stated: when the update call of add_sign_out fails, the body
\* checks the outcome and ends the task as on the append path: update_state
\* to FAILURE with a non-empty message, then Ignore.
C6_UpdateFailureChecked ==
    \A t \in TaskIds :
      (Done(t) /\ FailedCall(t, {"update"})) =>
        /\ tasks[t].status = "FAILURE"
        /\ tasks[t].exc = "Ignore"
        /\ tasks[t].meta.type = "str" /\ tasks[t].meta.text # ""

\* C7, as stated: no failure of a remote call (read, append, update) leaves
\* the task body as an unhandled exception; the task ends FAILURE with
\* metadata.
C7_NoUnhandledFault ==
    \A t \in TaskIds :
      (Done(t) /\ FailedCall(t, {"get", "append", "update"})) =>
        /\ tasks[t].exc \notin {"HttpError", "KeyError", "ValueError"}
        /\ tasks[t].status = "FAILURE"
        /\ tasks[t].meta # NoMeta

\* C8, as stated: when the read of add_sign_out returns a response without
\* the `values` key, the task takes the no-match branch and appends the
\* orphan row.
C8_MissingValuesIsNoMatch ==
    \A t \in TaskIds :
      (IsSignOut(t) /\ Done(t) /\ ReadReturned(t) /\ ~tasks[t].result.has_values) =>
        /\ tasks[t].exc # "KeyError"
        /\ OneOrphanAppend(t)

\* C9: the status of a task only moves forward along
\* PENDING -> STARTED -> (SUCCESS | FAILURE), and once it is SUCCESS or
\* FAILURE neither the status nor the metadata changes again.
StatusRank(status) ==
    CASE status = "PENDING" -> 0
      [] status = "STARTED" -> 1
      [] status \in {"SUCCESS", "FAILURE"} -> 2

C9_StatusStep ==
    \A t \in TaskIds :
      /\ tasks'[t].status \in {"PENDING", "STARTED", "SUCCESS", "FAILURE"}
      /\ StatusRank(tasks'[t].status) >= StatusRank(tasks[t].status)
      /\ tasks[t].status \in {"SUCCESS", "FAILURE"} =>
           (tasks'[t].status = tasks[t].status /\ tasks'[t].meta = tasks[t].meta)

RacingSignOuts(t1, t2) ==
    /\ t1 # t2 /\ IsSignOut(t1) /\ IsSignOut(t2) /\ SameKey(t1, t2)
    /\ \A u \in TaskIds \ {t1, t2} : ~SameKey(u, t1)
    /\ tasks[t1].status = "SUCCESS" /\ tasks[t2].status = "SUCCESS"
    /\ HasCall(t1, "update") /\ HasCall(t2, "update")
    /\ Pos(t1, "get") < Pos(t1, "update") /\ Pos(t2, "get") < Pos(t1, "update")
    /\ Pos(t1, "update") < Pos(t2, "update")

C10_LastUpdateWins ==
    \A t1 \in TaskIds : \A t2 \in TaskIds :
      RacingSignOuts(t1, t2) =>
        LET a == tasks[t1].args
            b == tasks[t2].args
            values == tasks[t1].result.values
            k == MaxOf(RowsFor(values, a.cub_name, a.date))
        IN /\ OneUpdateAt(t1, k) /\ OneUpdateAt(t2, k)
           /\ k <= Len(sheet)
           /\ sheet[k] = <<b.cub_name, values[k][2], values[k][3], b.parent_sig,
                            values[k][5], b.time, b.date>>
           /\ a.parent_sig # b.parent_sig =>
                (sheet[k][4] # a.parent_sig /\ sheet[k][6] # a.time)

\* Two racing sign-outs with different signatures and times.
C10_Witness ==
    \E t1 \in TaskIds : \E t2 \in TaskIds :
      /\ RacingSignOuts(t1, t2)
      /\ tasks[t1].args.parent_sig # tasks[t2].args.parent_sig
      /\ tasks[t1].args.time # tasks[t2].args.time

----------------------------------------------------------------------------
NoFailedCall(t) == ~FailedCall(t, {"get", "append", "update"})

\* C11, as stated, for reads whose rows all have 7 columns and runs whose
\* remote calls all return: when add_sign_out reads the sheet before the
\* append of the add_sign_in for the same (childName, date) and no row read
\* is for (childName, date), the sign-out appends the orphan row, and once
\* both tasks have ended the sheet holds two rows for (childName, date): the
\* sign-in row and the orphan row.
C11_SignOutFirstLeavesTwoRows ==
    \A ti \in TaskIds : \A to \in TaskIds :
      LET a == tasks[ti].args
          b == tasks[to].args
      IN (/\ IsSignIn(ti) /\ IsSignOut(to) /\ SameKey(ti, to)
          /\ \A u \in TaskIds \ {ti, to} : ~SameKey(u, to)
          /\ Done(ti) /\ Done(to) /\ NoFailedCall(ti) /\ NoFailedCall(to)
          /\ Pos(to, "get") < Pos(ti, "append")
          /\ WellFormed(tasks[to].result.values)
          /\ RowsFor(tasks[to].result.values, b.cub_name, b.date) = {})
         =>
          /\ OneOrphanAppend(to)
          /\ Cardinality(RowsFor(sheet, b.cub_name, b.date)) = 2
          /\ \E j \in 1..Len(sheet) :
               sheet[j] = <<a.cub_name, a.cub_sig, a.parent_sig, "", a.time, "", a.date>>
          /\ \E k \in 1..Len(sheet) :
               sheet[k] = <<b.cub_name, "", "", b.parent_sig, "", b.time, b.date>>

\* C12: an execution of add_sign_in whose append returns adds exactly one
\* row, its own, at the end of the sheet and changes no other row, whatever
\* the sheet holds; so two executions with the same arguments leave two
\* rows of the same content.
C12_SignInStep ==
    \A t \in TaskIds :
      (IsSignIn(t) /\ ~Done(t) /\ tasks'[t].status = "SUCCESS") =>
        LET a == tasks[t].args IN
          /\ Len(sheet') = Len(sheet) + 1
          /\ sheet'[Len(sheet')] =
               <<a.cub_name, a.cub_sig, a.parent_sig, "", a.time, "", a.date>>
          /\ \A k \in 1..Len(sheet) : sheet'[k] = sheet[k]

C12_SignInNotIdempotent == [][C12_SignInStep]_vars

\* Two add_sign_in tasks with the same arguments, both ended SUCCESS: the
\* sheet holds their row at two places.
C12_Witness ==
    \E t \in TaskIds : \E u \in TaskIds :
      /\ t # u /\ IsSignIn(t) /\ IsSignIn(u) /\ tasks[t].args = tasks[u].args
      /\ tasks[t].status = "SUCCESS" /\ tasks[u].status = "SUCCESS"
      /\ \E j \in 1..Len(sheet) : \E k \in 1..Len(sheet) :
           j # k /\ sheet[j] = sheet[k] /\ sheet[j] = log[Pos(t, "append")].row

----------------------------------------------------------------------------
\* C18: when several rows read by add_sign_out are for (childName, date),
\* the update that is applied rewrites the last of them, with the sign-in
\* columns of that last row as read, and leaves every other row, the earlier
\* matching rows among them, as it was.
C18_UpdateStep ==
    \A t \in TaskIds :
      LET a == tasks[t].args
          values == tasks[t].result.values
          rows == RowsFor(values, a.cub_name, a.date)
      IN (IsSignOut(t) /\ tasks[t].pc = "write" /\ tasks'[t].status = "SUCCESS"
          /\ Cardinality(rows) >= 2) =>
           LET k == MaxOf(rows) IN
             /\ Len(sheet') = Len(sheet)
             /\ sheet'[k] = <<a.cub_name, values[k][2], values[k][3], a.parent_sig,
                               values[k][5], a.time, a.date>>
             /\ \A j \in 1..Len(sheet) : j # k => sheet'[j] = sheet[j]
             /\ log'[Len(log')].op = "update"
             /\ log'[Len(log')].range.row = k

C18_LastMatchUpdated == [][C18_UpdateStep]_vars

\* A sign-out that read two rows for its key with different sign-in columns
\* and ended SUCCESS: the first of them is still in the sheet as read.
C18_Witness ==
    \E t \in TaskIds :
      LET values == tasks[t].result.values
          rows == RowsFor(values, tasks[t].args.cub_name, tasks[t].args.date)
      IN /\ IsSignOut(t) /\ tasks[t].status = "SUCCESS"
         /\ Cardinality(rows) = 2
         /\ \E i \in rows : \E k \in rows :
              /\ i < k /\ values[i][2] # values[k][2]
              /\ sheet[i] = values[i]
              /\ sheet[k][2] = values[k][2] /\ sheet[k][4] = tasks[t].args.parent_sig

\* C19: every step leaves the sheet alone, appends one row at its end, or
\* overwrites one row: the row count never decreases, no row moves, and a
\* row's child name, child signature, guardian-in signature, time-in and
\* date never change.  So the row a sign-out is about to update is still a
\* row for its (childName, date).
SameSignInColumns(old, new) ==
    IF Len(old) = NCols
    THEN /\ Len(new) = NCols
         /\ new[1] = old[1] /\ new[2] = old[2] /\ new[3] = old[3]
         /\ new[5] = old[5] /\ new[7] = old[7]
    ELSE new = old

C19_SheetStep ==
    /\ Len(sheet') >= Len(sheet)
    /\ Len(sheet') <= Len(sheet) + 1
    /\ \A k \in 1..Len(sheet) : SameSignInColumns(sheet[k], sheet'[k])
    /\ Len(sheet') = Len(sheet) + 1 => \A k \in 1..Len(sheet) : sheet'[k] = sheet[k]
    /\ Cardinality({k \in 1..Len(sheet) : sheet'[k] # sheet[k]}) <= 1
    /\ \A t \in TaskIds :
         LET a == tasks[t].args
             rows == RowsFor(tasks[t].result.values, a.cub_name, a.date)
         IN (IsSignOut(t) /\ tasks[t].pc = "write" /\ rows # {}) =>
              /\ MaxOf(rows) <= Len(sheet)
              /\ sheet[MaxOf(rows)][1] = a.cub_name
              /\ sheet[MaxOf(rows)][NCols] = a.date

C19_AppendOrOverwriteOnly == [][C19_SheetStep]_vars

\* A sign-out about to update a row it found, after another task's append
\* and another task's update have been applied since its read.
C19_Witness ==
    \E t \in TaskIds :
      /\ IsSignOut(t) /\ tasks[t].pc = "write"
      /\ RowsFor(tasks[t].result.values, tasks[t].args.cub_name,
                 tasks[t].args.date) # {}
      /\ \E j \in 1..Len(log) :
           log[j].task # t /\ log[j].ok /\ log[j].op \in {"append", "update"}
           /\ Pos(t, "get") < j

\* C20: an add_sign_out run again with the same arguments after a run that
\* ended SUCCESS, no other task calling the service from the first run's
\* read on, leaves the sheet as the first run left it, and writes with an
\* update call, not an append: on the match branch and on the no-match
\* branch of the first run.
LastPos(t) == CHOOSE k \in 1..Len(log) :
                log[k].task = t /\ \A j \in 1..Len(log) : log[j].task = t => j <= k

RerunOf(t2, t1) ==
    /\ t1 # t2 /\ IsSignOut(t1) /\ IsSignOut(t2)
    /\ tasks[t1].args = tasks[t2].args
    /\ tasks[t1].status = "SUCCESS"
    /\ HasCall(t2, "get")
    /\ LastPos(t1) < Pos(t2, "get")
    /\ \A j \in Pos(t1, "get")..Len(log) : log[j].task \in {t1, t2}

C20_RerunStep ==
    \A t2 \in TaskIds :
      (tasks[t2].pc = "write" /\ tasks'[t2].pc = "done"
       /\ \E t1 \in TaskIds : RerunOf(t2, t1)) =>
        /\ sheet' = sheet
        /\ log'[Len(log')].op = "update"

C20_SignOutIdempotent == [][C20_RerunStep]_vars

\* A sign-out that appended its orphan row, then the same sign-out again,
\* which updated: both ended SUCCESS.
C20_Witness ==
    \E t1 \in TaskIds : \E t2 \in TaskIds :
      /\ RerunOf(t2, t1)
      /\ tasks[t2].status = "SUCCESS"
      /\ HasCall(t1, "append") /\ HasCall(t2, "update")
      /\ Cardinality(RowsFor(sheet, tasks[t1].args.cub_name, tasks[t1].args.date)) = 1

----------------------------------------------------------------------------
\* The /v1/sign-in and /v1/sign-out handlers of the API.

\* How many requests the API answers in one behaviour.
MaxRequests == 2

\* The Authorization header: no Bearer token, a token that does not decode
\* (or has expired), a token that decodes to the request's email.
Tokens == {"missing", "invalid", "valid"}

RequestEmails ==
    {"nicholas.spain96@gmail.com", "sam@example.org", "eve@example.org"}

\* "time" of the request body, as sent.
SignInTimes == {"08:00:00", "8 o'clock"}

SignOutRequestStamps ==
    {<<"sigP2", "17:00:00">>, <<"sigP3", "17:30:00">>, <<"sigP2", "5pm">>}

SignInRequests ==
    [token : Tokens, email : RequestEmails, json : BOOLEAN,
     cubName : CubNames, cubSignature : {"sigC"}, parentSignature : {"sigP"},
     time : SignInTimes, date : Dates]

SignOutRequests ==
    { [token |-> k, email |-> e, json |-> j, cubName |-> c,
       parentSignature |-> st[1], time |-> st[2], date |-> d] :
        k \in Tokens, e \in RequestEmails, j \in BOOLEAN, c \in CubNames,
        st \in SignOutRequestStamps, d \in Dates }

\* datetime.strptime(data["time"], "%H:%M:%S").time(), sent to the worker as
\* its ISO text: ValueError for a text of another format.
ParseTime(text) ==
    IF text \in {"08:00:00", "17:00:00", "17:30:00"}
    THEN [ok |-> TRUE, value |-> text]
    ELSE [ok |-> FALSE, value |-> ""]

\* jwt_required taking a token that does not decode as decoded.
JwtRequiredUnverified(req) ==
    IF req.token = "missing" THEN 400
    ELSE IF req.email \notin {u.email : u \in UserTable} THEN 401
    ELSE 200

\* jwt_required: the status it aborts with, 200 when it calls the handler.
JwtRequired(req) ==
    IF req.token = "missing" THEN 400
    ELSE IF req.token = "invalid" THEN 401
    ELSE IF req.email \notin {u.email : u \in UserTable} THEN 401
    ELSE 200

\* get_user_settings(email): the settings rows joined to the user of that
\* email; .first() is None when the set is empty.
get_user_settings(email) ==
    { st \in SettingsTable :
        \E u \in UserTable : u.id = st.user_id /\ u.email = email }

\* What the client is told, and what the claims need of the request.
Response(endpoint, req, status) ==
    [endpoint |-> endpoint, status |-> status, token |-> req.token,
     email |-> req.email,
     well_formed |-> req.json /\ ParseTime(req.time).ok]

\* The body of a handler up to its send_task call: the status it ends with
\* before the call, 200 when it reaches the call.  on_bad_json and
\* on_no_settings are what the handler's two error branches end with.
BeforeSendTask(req, on_bad_json, on_no_settings) ==
    IF JwtRequired(req) # 200 THEN JwtRequired(req)
    ELSE IF ~req.json THEN on_bad_json
    ELSE IF ~ParseTime(req.time).ok THEN 400
    ELSE IF get_user_settings(req.email) = {} THEN on_no_settings
    ELSE 200

\* sign_in: the BadRequest branch calls app.logger.deubg (AttributeError,
\* 500); without settings the handler answers 400.
sign_in ==
    /\ Len(responses) < MaxRequests
    /\ \E req \in SignInRequests :
         LET status == BeforeSendTask(req, 500, 400) IN
           IF status # 200
           THEN /\ responses' = Append(responses, Response("sign-in", req, status))
                /\ tasks' = tasks
           ELSE LET settings == CHOOSE st \in get_user_settings(req.email) : TRUE IN
                /\ tasks' = Append(tasks, NewTask("add_sign_in",
                       [cub_name |-> req.cubName, cub_sig |-> req.cubSignature,
                        parent_sig |-> req.parentSignature,
                        time |-> ParseTime(req.time).value, date |-> req.date,
                        sheet_name |-> settings.attendance_sheet]))
                /\ responses' = Append(responses, Response("sign-in", req, 204))
    /\ UNCHANGED <<sheet, log, attendance>>

\* sign_out: the BadRequest branch aborts with 400; without settings the
\* handler calls jsonfiy (NameError, 500).
sign_out ==
    /\ Len(responses) < MaxRequests
    /\ \E req \in SignOutRequests :
         LET status == BeforeSendTask(req, 400, 500) IN
           IF status # 200
           THEN /\ responses' = Append(responses, Response("sign-out", req, status))
                /\ tasks' = tasks
           ELSE LET settings == CHOOSE st \in get_user_settings(req.email) : TRUE IN
                /\ tasks' = Append(tasks, NewTask("add_sign_out",
                       [cub_name |-> req.cubName, parent_sig |-> req.parentSignature,
                        time |-> ParseTime(req.time).value, date |-> req.date,
                        sheet_name |-> settings.attendance_sheet]))
                /\ responses' = Append(responses, Response("sign-out", req, 201))
    /\ UNCHANGED <<sheet, log, attendance>>

\* The API in front of one sheet that holds a title row and one sign-in.
InitApi ==
    /\ sheet = <<HeaderRow, OpenRow("Alex", "2024-03-01")>>
    /\ tasks = <<>>
    /\ log = <<>>
    /\ InitApiIdle
    /\ InitNamesIdle

NextApi ==
    \/ sign_in /\ UNCHANGED nameVars
    \/ sign_out /\ UNCHANGED nameVars
    \/ \E t \in TaskIds : add_sign_in(t) /\ UNCHANGED <<apiVars, nameVars>>
    \/ \E t \in TaskIds : add_sign_out_read(t) /\ UNCHANGED <<apiVars, nameVars>>
    \/ \E t \in TaskIds : add_sign_out_write(t) /\ UNCHANGED <<apiVars, nameVars>>

SpecApi == InitApi /\ [][NextApi]_vars

----------------------------------------------------------------------------
\* Claims about the API handlers.

\* A staging row of models.Attendance for the event a task carries.
StagingRecordFor(t) ==
    \E r \in attendance :
        r.cub_name = tasks[t].args.cub_name /\ r.date = tasks[t].args.date

\* C13: whenever an add_sign_in or add_sign_out task has been enqueued by a
\* handler, a staging attendance record for its event exists in the
\* relational store.
C13_StagingRecordAtEnqueue == \A t \in TaskIds : StagingRecordFor(t)

\* C14: after a task has ended FAILURE (its remote write did not return a
\* positive outcome) the staging record of its event still exists.
C14_StagingRecordKeptOnFailure ==
    \A t \in TaskIds :
        (Done(t) /\ tasks[t].status = "FAILURE") => StagingRecordFor(t)

\* The request a response answers was authorised and well formed: its token
\* decodes, its email is invited, its body parses and its user has settings.
Acceptable(r) ==
    /\ r.token = "valid"
    /\ \E u \in UserTable :
         /\ u.email = r.email
         /\ \E st \in SettingsTable : st.user_id = u.id
    /\ r.well_formed

C15_Step ==
    IF Len(responses') # Len(responses)
    THEN LET r == responses'[Len(responses')] IN
         /\ Len(responses') = Len(responses) + 1
         /\ SubSeq(responses', 1, Len(responses)) = responses
         /\ SubSeq(tasks', 1, Len(tasks)) = tasks
         /\ IF Acceptable(r)
            THEN /\ Len(tasks') = Len(tasks) + 1
                 /\ tasks'[Len(tasks')].pc = "queued"
                 /\ tasks'[Len(tasks')].status = "PENDING"
                 /\ tasks'[Len(tasks')].name =
                      (IF r.endpoint = "sign-in" THEN "add_sign_in" ELSE "add_sign_out")
                 /\ r.status \in {201, 204}
            ELSE /\ tasks' = tasks
                 /\ r.status \notin {201, 204}
    ELSE /\ responses' = responses
         /\ Len(tasks') = Len(tasks)

----------------------------------------------------------------------------
\* The periodic task update_name_autocomplete.

\* How many times the beat sends the task in one behaviour.
MaxRuns == 2

\* The names bound at module level when a task body runs.
ModuleGlobals ==
    {"celery", "logger", "Base", "engine", "Name", "Settings", "User", "session"}

\* The names local to update_name_autocomplete inside its loop.
LoopLocals == {"sheets", "users", "user", "settings", "sheet_name", "result", "names", "name"}

\* A name the loop body looks up resolves; NameError otherwise.
Defined(name) == name \in ModuleGlobals \cup LoopLocals

\* The cached names of one account, as rows of the name table.
CachedNames == {<<>>, <<"Alex">>}

\* What the range A2:A of an account's autocomplete sheet holds; an empty
\* range comes back without a "values" key.
AutocompleteRanges == {<<>>, << <<"Alex">> >>, << <<"Alex">>, <<"Jordan">> >>}

\* names.append(name[0]) for every row read.
FirstColumn(values) == [i \in 1..Len(values) |-> values[i][1]]

\* session.query(Settings)...filter_by(user_id=user.id): .first() is None
\* when the set is empty.
SettingsOf(user) == {st \in SettingsTable : st.user_id = user}

\* session.query(User).all(): the users in an order the query does not fix.
UserOrders ==
    {o \in [1..Cardinality(UserIds) -> UserIds] :
        \A i, j \in DOMAIN o : i # j => o[i] # o[j]}

\* The beat sends update_name_autocomplete and the worker takes it up to the
\* head of the loop.
beat_start ==
    /\ beat.pc = "idle"
    /\ beat.runs < MaxRuns
    /\ \E o \in UserOrders :
         beat' = [pc |-> "loop", runs |-> beat.runs + 1, users |-> o,
                  status |-> "PENDING", exc |-> ""]
    /\ UNCHANGED <<name_table, autocomplete>>

\* The run ends on an exception that nothing catches; the users not yet
\* visited stay unvisited.
RunRaises(exc) ==
    /\ beat' = [beat EXCEPT !.pc = "idle", !.status = "FAILURE", !.exc = exc]
    /\ UNCHANGED <<name_table, autocomplete>>

\* The loop goes on to the next user.
NextUser(names) ==
    /\ beat' = [beat EXCEPT !.users = Tail(beat.users)]
    /\ name_table' = names
    /\ UNCHANGED autocomplete

\* One pass of the loop body for the next user, or the return after the
\* last one.
update_name_autocomplete ==
    /\ beat.pc = "loop"
    /\ IF beat.users = <<>>
       THEN /\ beat' = [beat EXCEPT !.pc = "idle", !.status = "SUCCESS"]
            /\ UNCHANGED <<name_table, autocomplete>>
       ELSE LET user == Head(beat.users) IN
            IF ~Defined("sesson") \/ ~Defined("models")
            THEN RunRaises("NameError")
            ELSE IF SettingsOf(user) = {}
            THEN RunRaises("AttributeError")
            ELSE \E outcome \in RemoteOutcomes :
                   IF outcome = "HttpError"
                   THEN RunRaises("HttpError")
                   ELSE IF autocomplete[user] = <<>>
                   THEN NextUser(name_table)
                   ELSE IF ~Defined("user_id")
                   THEN RunRaises("NameError")
                   ELSE NextUser([name_table EXCEPT
                                    ![user] = FirstColumn(autocomplete[user])])

InitNames ==
    /\ sheet = <<>>
    /\ tasks = <<>>
    /\ log = <<>>
    /\ InitApiIdle
    /\ name_table \in [UserIds -> CachedNames]
    /\ autocomplete \in [UserIds -> AutocompleteRanges]
    /\ beat = [pc |-> "idle", runs |-> 0, users |-> <<>>, status |-> "PENDING", exc |-> ""]

NextNames ==
    \/ beat_start /\ UNCHANGED <<sheetVars, apiVars>>
    \/ update_name_autocomplete /\ UNCHANGED <<sheetVars, apiVars>>

SpecNames == InitNames /\ [][NextNames]_vars

\* A run of update_name_autocomplete has ended.
RunEnded == beat.pc = "idle" /\ beat.runs > 0

\* The account's cached names are the first column of its range.
Refreshed(u) == name_table[u] = FirstColumn(autocomplete[u])

\* C16: once a run has ended, every account that has settings and whose
\* autocomplete range is not empty has as its cached names exactly the
\* first-column values of that range.
C16_NamesReplacedByRange ==
    RunEnded =>
        \A u \in UserIds :
            (SettingsOf(u) # {} /\ autocomplete[u] # <<>>) => Refreshed(u)

\* C17: a run over several accounts of which one has no settings is not
\* aborted by that account: it ends having visited every account, and every
\* other account that has settings and a range that is not empty is
\* refreshed.
C17_FailureDoesNotAbortRun ==
    (RunEnded /\ \E v \in UserIds : SettingsOf(v) = {}) =>
        /\ beat.users = <<>>
        /\ \A u \in UserIds :
             (SettingsOf(u) # {} /\ autocomplete[u] # <<>>) => Refreshed(u)

----------------------------------------------------------------------------
\* Two sign-outs for one key, no other task for it, both run to their end
\* with every remote call returning, and both reads made before any other
\* call of either task.
BothReadFirst(t1, t2) ==
    /\ t1 # t2 /\ IsSignOut(t1) /\ IsSignOut(t2) /\ SameKey(t1, t2)
    /\ \A u \in TaskIds \ {t1, t2} : ~SameKey(u, t1)
    /\ Done(t1) /\ Done(t2) /\ NoFailedCall(t1) /\ NoFailedCall(t2)
    /\ \A k \in 1..Len(log) :
         (log[k].task \in {t1, t2} /\ log[k].op # "get") =>
           (Pos(t1, "get") < k /\ Pos(t2, "get") < k)

\* Neither task's read holds a row for the key, and every row read has 7
\* columns.
NoMatchRead(t) ==
    /\ WellFormed(tasks[t].result.values)
    /\ RowsFor(tasks[t].result.values, tasks[t].args.cub_name,
               tasks[t].args.date) = {}

\* C21, as stated: when two add_sign_out tasks for the same (childName,
\* date) both read a sheet with no row for it before either writes, each
\* takes the no-match branch and appends its orphan row, and the sheet ends
\* with two orphan rows for (childName, date).
C21_RacingSignOutsLeaveTwoOrphans ==
    \A t1 \in TaskIds : \A t2 \in TaskIds :
      (BothReadFirst(t1, t2) /\ NoMatchRead(t1) /\ NoMatchRead(t2)) =>
        /\ OneOrphanAppend(t1) /\ OneOrphanAppend(t2)
        /\ Cardinality(RowsFor(sheet, tasks[t1].args.cub_name,
                               tasks[t1].args.date)) = 2

----------------------------------------------------------------------------
\* Some row of the task's read does not have 7 columns.
OtherWidthRead(task) == ~WellFormed(task.result.values)

C22_ReadStep ==
    \A t \in TaskIds :
      (IsSignOut(t) /\ tasks'[t] # tasks[t] /\ OtherWidthRead(tasks'[t])) =>
        /\ sheet' = sheet
        /\ tasks'[t].pc = "done"
        /\ tasks'[t].status = "FAILURE"
        /\ tasks'[t].exc = "ValueError"
        /\ \A k \in 1..Len(log') : log'[k].task = t => log'[k].op = "get"

\* C22: when a row returned by the read of add_sign_out does not have
\* exactly 7 columns, the task ends at its read without SUCCESS (FAILURE,
\* ValueError), whether or not a row for (childName, date) is among the rows
\* read; it has made no update and no append call and its step leaves the
\* sheet as it was.
C22_OtherWidthRowFaultsScan == [][C22_ReadStep]_vars

\* A sign-out that faulted on a row of another width although the rows it
\* read hold a row for its (childName, date), after another task's append
\* had put a further row on the sheet.
C22_Witness ==
    \E t \in TaskIds :
      /\ IsSignOut(t) /\ Done(t) /\ OtherWidthRead(tasks[t])
      /\ tasks[t].status = "FAILURE"
      /\ RowsFor(tasks[t].result.values, tasks[t].args.cub_name,
                 tasks[t].args.date) # {}
      /\ Len(tasks[t].result.values) > 2
      /\ sheet = tasks[t].result.values

====
